---- MODULE Spec2Model ----
(***************************************************************************)
(* A model of the mstr crate (src/src/lib.rs): MStr, a two-word            *)
(* Cow<str> whose ownership tag lives in the top bit of the length word.   *)
(*                                                                         *)
(* Memory is a set of regions named by their start address.  Static        *)
(* regions hold the string literals and are never freed.  Heap regions are *)
(* handed out by the global allocator, which may pick any free address.    *)
(* A zero-sized Box<str>/String owns no region: its pointer is the         *)
(* dangling address, as in alloc::raw_vec.                                 *)
(*                                                                         *)
(* The values a client holds (MStr, String, Box<str>, Cow<str>) are kept   *)
(* in the bag vals.  Every value carries ghost fields: text, the content   *)
(* it was built from, and otag/optr, the tag and address of the MStr a Cow *)
(* was obtained from by into_cow.                                          *)
(*                                                                         *)
(* MStr is Send and Sync: thr holds, for each thread that shares the       *)
(* client's values, the reference it has and how far the method it called  *)
(* on it has got.                                                          *)
(***************************************************************************)
EXTENDS Integers, Sequences, FiniteSets, Bags, TLC

VARIABLES heap, vals, last, probe, thr

vars == <<heap, vals, last, probe, thr>>

(* ------------------------------ bounds -------------------------------- *)

\* width of usize in the model
BITS == 7
\* number of values the client holds at once
NVals == 2
\* number of addresses the allocator can hand out
NHeap == 2
\* excess capacity of the Strings the client builds with spare room
MaxSpare == 1

(* ----------------------------- bit packing ---------------------------- *)

RECURSIVE BitAndN(_, _, _)
BitAndN(x, y, n) ==
    IF n = 0 THEN 0
    ELSE (x % 2) * (y % 2) + 2 * BitAndN(x \div 2, y \div 2, n - 1)

RECURSIVE BitOrN(_, _, _)
BitOrN(x, y, n) ==
    IF n = 0 THEN 0
    ELSE (IF (x % 2) + (y % 2) > 0 THEN 1 ELSE 0)
         + 2 * BitOrN(x \div 2, y \div 2, n - 1)

USIZE == 0 .. (2 ^ BITS - 1)

\* the two operations tabulated over the whole word
AndTable == [x \in USIZE |-> [y \in USIZE |-> BitAndN(x, y, BITS)]]
OrTable == [x \in USIZE |-> [y \in USIZE |-> BitOrN(x, y, BITS)]]

\* usize & usize, usize | usize, !usize
BitAnd(x, y) == AndTable[x][y]
BitOr(x, y) == OrTable[x][y]
BitNot(x) == (2 ^ BITS - 1) - x

TAG == 2 ^ (BITS - 1)
MASK == BitNot(TAG)

(* ------------------------------- memory ------------------------------- *)

\* NonNull::<u8>::dangling(): the alignment of u8
Dangling == 1

\* the string literals of the client program, as byte sequences
Literals == << <<>>, <<97, 98>>, <<98>> >>

StaticAddrs == 2 .. (Len(Literals) + 1)
StaticAddr(k) == k + 1
HeapAddrs == (Len(Literals) + 2) .. (Len(Literals) + 1 + NHeap)

NoBlock == [live |-> FALSE, size |-> 0, bytes |-> <<>>]

EmptyHeap == [blk |-> [a \in HeapAddrs |-> NoBlock], fault |-> "none"]

FreeAddrs(h) == {a \in HeapAddrs : ~h.blk[a].live}

\* what a read of freed or foreign memory may return
Poison(n) == [i \in 1 .. n |-> 0]

\* the bytes of the n-byte range starting at address p
Deref(h, p, n) ==
    IF n = 0 THEN <<>>
    ELSE IF p \in StaticAddrs /\ n <= Len(Literals[p - 1])
        THEN SubSeq(Literals[p - 1], 1, n)
    ELSE IF p \in HeapAddrs /\ h.blk[p].live /\ n <= Len(h.blk[p].bytes)
        THEN SubSeq(h.blk[p].bytes, 1, n)
    ELSE Poison(n)

\* alloc::alloc(Layout) followed by a copy of bytes into the block; the
\* allocator picks the address.  A zero-sized request allocates nothing.
Alloc(h, cap, bytes) ==
    IF cap = 0 THEN {[h |-> h, ptr |-> Dangling]}
    ELSE {[h |-> [h EXCEPT !.blk[a] =
                     [live |-> TRUE, size |-> cap, bytes |-> bytes]],
           ptr |-> a] : a \in FreeAddrs(h)}

\* alloc::dealloc(ptr, Layout): freeing a block that is not live, or with a
\* layout other than the one it was allocated with, is undefined behaviour
\* and is recorded in fault.
Dealloc(h, p, n) ==
    IF n = 0 THEN h
    ELSE IF p \notin HeapAddrs \/ ~h.blk[p].live
        THEN [h EXCEPT !.fault = "invalid_free"]
    ELSE IF h.blk[p].size # n
        THEN [blk |-> [h.blk EXCEPT ![p] = NoBlock], fault |-> "bad_layout"]
    ELSE [h EXCEPT !.blk[p] = NoBlock]

\* alloc::realloc to a smaller size: the block may stay or move
Shrink(h, p, old, new) ==
    IF p \notin HeapAddrs \/ ~h.blk[p].live \/ h.blk[p].size # old
        THEN {[h |-> [h EXCEPT !.fault = "bad_layout"], ptr |-> p]}
    ELSE {[h |-> [h EXCEPT !.blk[p].size = new], ptr |-> p]}
         \cup {[h |-> [h EXCEPT !.blk[a] = [h.blk[p] EXCEPT !.size = new],
                                !.blk[p] = NoBlock],
                ptr |-> a] : a \in FreeAddrs(h)}

(* ------------------------------- values ------------------------------- *)

\* A value of the client program.  kind is one of "str" (a &str), "mstr",
\* "string", "box", "cow_borrowed", "cow_owned"; ptr/len/cap are its words
\* (len is the packed length/tag word of an MStr); text, otag and optr are
\* ghost fields.
Value(kind, ptr, n, cap) ==
    [kind |-> kind, ptr |-> ptr, len |-> n, cap |-> cap,
     text |-> <<>>, otag |-> "none", optr |-> 0]

NoVal == Value("none", 0, 0, 0)

Ghost(v, text, otag, optr) ==
    [v EXCEPT !.text = text, !.otag = otag, !.optr = optr]

\* the value without its ghost fields
Bare(v) == Value(v.kind, v.ptr, v.len, v.cap)

StrRef(ptr, n) == Value("str", ptr, n, 0)

(* ------------------------ alloc::{boxed, string} ---------------------- *)

\* <Box<str> as From<&str>>::from: a fresh exact-size copy
Box_from_str(h, s) ==
    {[h |-> o.h, v |-> Value("box", o.ptr, s.len, 0)] :
        o \in Alloc(h, s.len, Deref(h, s.ptr, s.len))}

\* into_boxed_str that hands the buffer over without shrinking it
String_into_boxed_str_unshrunk(h, s) ==
    {[h |-> h, v |-> Value("box", s.ptr, s.len, 0)]}

\* String::into_boxed_str: shrinks to fit when there is excess capacity
String_into_boxed_str(h, s) ==
    IF s.len < s.cap
    THEN IF s.len = 0
         THEN {[h |-> Dealloc(h, s.ptr, s.cap),
                v |-> Value("box", Dangling, 0, 0)]}
         ELSE {[h |-> o.h, v |-> Value("box", o.ptr, s.len, 0)] :
                  o \in Shrink(h, s.ptr, s.cap, s.len)}
    ELSE {[h |-> h, v |-> Value("box", s.ptr, s.len, 0)]}

\* Box<str>::into_string: capacity is the length, nothing moves
Box_into_string(b) == Value("string", b.ptr, b.len, b.len)

\* Box::from_raw / Box::into_raw of a *mut str: the fat pointer itself
Box_from_raw(sp) == Value("box", sp.ptr, sp.len, 0)
Box_into_raw(b) == StrRef(b.ptr, b.len)

\* drop of a Box<str> and of a String
drop_box(h, b) == Dealloc(h, b.ptr, b.len)
drop_string(h, s) == Dealloc(h, s.ptr, s.cap)

\* Cow<str>::into_owned
Cow_into_owned(h, c) ==
    IF c.kind = "cow_owned"
    THEN {[h |-> h, v |-> Value("string", c.ptr, c.len, c.cap)]}
    ELSE {[h |-> o.h, v |-> Value("string", o.ptr, c.len, c.len)] :
             o \in Alloc(h, c.len, Deref(h, c.ptr, c.len))}

\* impl Into<Box<str>> for Box<str>, String and &str
Into_box_str(h, s) ==
    IF s.kind = "box" THEN {[h |-> h, v |-> s]}
    ELSE IF s.kind = "string" THEN String_into_boxed_str(h, s)
    ELSE Box_from_str(h, s)

(* -------------------------------- MStr -------------------------------- *)

_new(ptr, n, tag) ==
    Value("mstr", ptr, IF tag THEN BitOr(n, TAG) ELSE n, 0)

is_owned(m) == BitAnd(m.len, TAG) = TAG

is_borrowed(m) == BitAnd(m.len, TAG) = 0

\* len() that forgets to mask the tag bit out
len_unmasked(m) == m.len

len(m) == BitAnd(m.len, MASK)

is_empty(m) == len(m) = 0

as_ptr(m) == m.ptr

as_str_ptr(m) == StrRef(as_ptr(m), len(m))

as_str(h, m) == Deref(h, as_str_ptr(m).ptr, as_str_ptr(m).len)

as_bytes(h, m) == as_str(h, m)

\* a method taking &self that stores the masked length back into self.len
shared_ref_untagging(m) == [m EXCEPT !.len = BitAnd(m.len, MASK)]

\* The receiver once a method taking &self has returned.  The two fields
\* are a NonNull<u8> and a usize, neither a Cell nor an atomic, and no
\* method taking &self assigns to them or writes through the pointer.
shared_ref(m) == m

\* new_borrowed that sets the tag bit
new_borrowed_tagged(s) == _new(s.ptr, s.len, TRUE)

new_borrowed(s) == _new(s.ptr, s.len, FALSE)

\* new_owned that copies its source whatever its type
new_owned_copying(h, s) ==
    {[h |-> o.h, v |-> _new(Box_into_raw(o.v).ptr, o.v.len, TRUE)] :
        o \in Box_from_str(h, StrRef(s.ptr, s.len))}

new_owned(h, s) ==
    {[h |-> o.h, v |-> _new(Box_into_raw(o.v).ptr, o.v.len, TRUE)] :
        o \in Into_box_str(h, s)}

\* new_cow that copies the text of either variant into a new owned MStr
new_cow_copying(h, s) == new_owned(h, StrRef(s.ptr, s.len))

new_cow(h, s) ==
    IF s.kind = "cow_borrowed"
    THEN {[h |-> h, v |-> new_borrowed(StrRef(s.ptr, s.len))]}
    ELSE new_owned(h, Value("string", s.ptr, s.len, s.cap))

\* drop that rebuilds and frees the Box<str> whatever the tag says
drop_untagged(h, m) == drop_box(h, Box_from_raw(as_str_ptr(m)))

drop(h, m) ==
    IF is_owned(m) THEN drop_box(h, Box_from_raw(as_str_ptr(m))) ELSE h

\* into_cow without the mem::forget: the destructor of self runs
mem_forget_missing(h, m) == drop(h, m)

\* mem::forget(self): the destructor does not run
mem_forget(h, m) == h

into_cow(h, m) ==
    LET p == as_str_ptr(m)
        o == is_owned(m)
        h1 == mem_forget(h, m)
    IN  IF o
        THEN [h |-> h1, v |-> [Box_into_string(Box_from_raw(p))
                                  EXCEPT !.kind = "cow_owned"]]
        ELSE [h |-> h1, v |-> Value("cow_borrowed", p.ptr, p.len, 0)]

\* into_string as self.as_str().to_owned(): a copy, then self is dropped
into_string_copying(h, m) ==
    {[h |-> drop(o.h, m), v |-> o.v] :
        o \in Cow_into_owned(h, Value("cow_borrowed", as_ptr(m), len(m), 0))}

into_string(h, m) == Cow_into_owned(into_cow(h, m).h, into_cow(h, m).v)

into_boxed(h, m) ==
    UNION {String_into_boxed_str(o.h, o.v) : o \in into_string(h, m)}

\* clone as a copy of the two words
clone_shallow(h, m) == {[h |-> h, v |-> _new(as_ptr(m), len(m), is_owned(m))]}

clone(h, m) ==
    IF is_borrowed(m)
    THEN {[h |-> h, v |-> _new(as_ptr(m), len(m), FALSE)]}
    ELSE new_owned(h, as_str_ptr(m))

\* default() with the tag bit set
default_owned == _new(Dangling, 0, TRUE)

default == _new(Dangling, 0, FALSE)

(* ------------------- comparison, ordering and hashing ----------------- *)

Min(a, b) == IF a <= b THEN a ELSE b

\* <[u8] as Ord>::cmp, which str::cmp forwards to: the common prefix is
\* compared byte by byte, then the lengths
RECURSIVE memcmp(_, _, _, _)
memcmp(a, b, i, n) ==
    IF i > n THEN "Equal"
    ELSE IF a[i] < b[i] THEN "Less"
    ELSE IF a[i] > b[i] THEN "Greater"
    ELSE memcmp(a, b, i + 1, n)

str_cmp(a, b) ==
    LET c == memcmp(a, b, 1, Min(Len(a), Len(b)))
    IN  IF c # "Equal" THEN c
        ELSE IF Len(a) < Len(b) THEN "Less"
        ELSE IF Len(a) > Len(b) THEN "Greater"
        ELSE "Equal"

\* <str as PartialEq>::eq: equal lengths and equal bytes
str_eq(a, b) == Len(a) = Len(b) /\ memcmp(a, b, 1, Len(a)) = "Equal"

\* <str as Hash>::hash: the bytes, then 0xff.  A Hasher is modelled by the
\* sequence of bytes written to it, which every Hasher is a function of.
str_hash(a, state) == state \o a \o <<255>>

\* the bytes of a plain str, String or Box<str>
str_of(h, s) == Deref(h, s.ptr, s.len)

hash(h, m, state) == str_hash(as_str(h, m), state)

\* equality of the two words, as a derived PartialEq would compare them
eq_identity(h, m, other) == m.ptr = other.ptr /\ m.len = other.len

eq(h, m, other) == str_eq(as_str(h, m), as_str(h, other))

\* PartialEq<str>, PartialEq<&str>, PartialEq<String>, PartialEq<Box<str>>
eq_str(h, m, other) == str_eq(as_str(h, m), str_of(h, other))

cmp(h, m, other) == str_cmp(as_str(h, m), as_str(h, other))

partial_cmp(h, m, other) == cmp(h, m, other)

\* PartialEq<MStr> for str, &str, String, Box<str>
str_eq_mstr(h, other, m) == str_eq(str_of(h, other), as_str(h, m))

\* PartialOrd<str> for MStr and PartialOrd<MStr> for str
partial_cmp_str(h, m, other) == str_cmp(as_str(h, m), str_of(h, other))

str_partial_cmp_mstr(h, other, m) == str_cmp(str_of(h, other), as_str(h, m))

(* -------------------------------- serde ------------------------------- *)

\* visit_str that keeps a view of the decoder's buffer
visit_str_borrowing(h, s) == {[h |-> h, v |-> new_borrowed(s)]}

visit_str(h, s) == new_owned(h, s)

visit_string(h, s) == new_owned(h, s)

(* ------------------------------ the client ---------------------------- *)

Held == BagToSet(vals)

Room == BagCardinality(vals) < NVals

Put(v) == vals (+) SetToBag({v})

Take(v) == vals (-) SetToBag({v})

IsMStr(v) == v.kind = "mstr"

\* the value holds a view into memory owned by another value
Borrows(v) ==
    \/ v.kind = "cow_borrowed"
    \/ IsMStr(v) /\ is_borrowed(v)

\* the value is responsible for freeing what it points to
OwnsHeap(v) ==
    \/ v.kind \in {"box", "string", "cow_owned"}
    \/ IsMStr(v) /\ is_owned(v)

\* the size of the allocation an owning value is responsible for
OwnedSize(v) == IF v.kind \in {"string", "cow_owned"} THEN v.cap
                ELSE IF IsMStr(v) THEN len(v) ELSE v.len

\* The borrow checker: a value may be moved or dropped only when no value
\* that borrows from it is still held.
Movable(v) ==
    \/ ~OwnsHeap(v)
    \/ v.ptr \notin HeapAddrs
    \/ \A w \in Held : ~(Borrows(w) /\ w.ptr = v.ptr)

\* the &str views the client can form: a literal, or a view of a held value
LiteralStr(k) ==
    Ghost(StrRef(StaticAddr(k), Len(Literals[k])), Literals[k], "none", 0)

ViewOf(h, v) ==
    LET sp == IF IsMStr(v) THEN as_str_ptr(v) ELSE StrRef(v.ptr, v.len)
    IN  Ghost(sp, Deref(h, sp.ptr, sp.len), "none", 0)

\* the bytes a held value denotes
Content(h, v) == ViewOf(h, v).text

LiteralStrs == {LiteralStr(k) : k \in 1 .. Len(Literals)}

StrSources == LiteralStrs \cup {ViewOf(heap, v) : v \in Held}

\* the record of the last operation: its name, argument(s) and result, the
\* bytes the argument denoted when the operation began, the addresses the
\* operation allocated and freed, and what a comparison returned.  The
\* client's own operations on String, Box<str> and Cow<str> are recorded
\* by name only.
Rec(op, arg, res, h, h2) ==
    [op |-> op, arg |-> arg, arg2 |-> NoVal, res |-> res,
     argtext |-> IF arg.kind = "none" THEN <<>> ELSE Content(h, arg),
     allocd |-> {a \in HeapAddrs : ~h.blk[a].live /\ h2.blk[a].live},
     freed |-> {a \in HeapAddrs : h.blk[a].live /\ ~h2.blk[a].live},
     eq |-> FALSE, eq2 |-> FALSE, ord |-> "none", ord2 |-> "none",
     hash |-> <<>>, hash2 |-> <<>>]

\* the threads that share references to the held MStr values (MStr is Sync)
Threads == {"t1", "t2"}

\* A thread is idle, or holds a shared reference to self ("ref"), or is
\* inside a method taking &self that has loaded the two words of self
\* ("loaded").  bytes is what self denoted when the reference was taken.
NoThread == [pc |-> "idle", self |-> NoVal, bytes |-> <<>>,
             ptr |-> 0, len |-> 0]

NoThreads == [t \in Threads |-> NoThread]

\* the borrow checker again: no thread holds a reference to the value
Unshared(v) == \A t \in Threads : thr[t].pc = "idle" \/ thr[t].self # v

Idle == [n |-> 0, tag |-> FALSE, ptr |-> 0, m |-> NoVal, done |-> FALSE]

Init ==
    /\ heap = EmptyHeap
    /\ vals = EmptyBag
    /\ last = Rec("init", NoVal, NoVal, EmptyHeap, EmptyHeap)
    /\ probe = Idle
    /\ thr = NoThreads

\* let s = String::with_capacity(n + spare); s.push_str(literal), with no
\* spare room or with MaxSpare bytes of it
MakeString(k, spare) ==
    /\ Room
    /\ \E o \in Alloc(heap, Len(Literals[k]) + spare, Literals[k]) :
         LET v == Ghost(Value("string", o.ptr, Len(Literals[k]),
                              Len(Literals[k]) + spare),
                        Literals[k], "none", 0)
         IN  /\ heap' = o.h
             /\ vals' = Put(v)
             /\ last' = Rec("client", NoVal, NoVal, heap, o.h)
    /\ UNCHANGED <<probe, thr>>

\* let b = Box::<str>::from(literal)
MakeBox(k) ==
    /\ Room
    /\ \E o \in Box_from_str(heap, LiteralStr(k)) :
         LET v == Ghost(o.v, Literals[k], "none", 0)
         IN  /\ heap' = o.h
             /\ vals' = Put(v)
             /\ last' = Rec("client", NoVal, NoVal, heap, o.h)
    /\ UNCHANGED <<probe, thr>>

\* a String, Box<str> or Cow<str> goes out of scope
DropStd(v) ==
    /\ v.kind \in {"string", "box", "cow_owned", "cow_borrowed"}
    /\ Movable(v)
    /\ LET h2 == IF v.kind = "box" THEN drop_box(heap, v)
                 ELSE IF v.kind = "cow_borrowed" THEN heap
                 ELSE drop_string(heap, v)
       IN  /\ heap' = h2
           /\ vals' = Take(v)
           /\ last' = Rec("client", NoVal, NoVal, heap, h2)
    /\ UNCHANGED <<probe, thr>>

\* Cow::Owned(string)
MakeCow(v) ==
    /\ v.kind = "string"
    /\ Movable(v)
    /\ LET c == [v EXCEPT !.kind = "cow_owned"]
       IN  /\ vals' = Put(c) (-) SetToBag({v})
           /\ last' = Rec("client", NoVal, NoVal, heap, heap)
    /\ UNCHANGED <<heap, probe, thr>>

\* MStr::new_borrowed(s)
NewBorrowed(s) ==
    /\ Room
    /\ LET r == Ghost(new_borrowed(s), s.text, "none", 0)
       IN  /\ vals' = Put(r)
           /\ last' = Rec("new_borrowed", s, r, heap, heap)
    /\ UNCHANGED <<heap, probe, thr>>

\* MStr::new_owned(s) for a literal s
NewOwnedStr(s) ==
    /\ Room
    /\ \E o \in new_owned(heap, s) :
         LET r == Ghost(o.v, s.text, "none", 0)
         IN  /\ heap' = o.h
             /\ vals' = Put(r)
             /\ last' = Rec("new_owned", s, r, heap, o.h)
    /\ UNCHANGED <<probe, thr>>

\* MStr::new_owned(v) for v: String or Box<str>, which is moved in
NewOwned(v) ==
    /\ v.kind \in {"string", "box"}
    /\ Movable(v)
    /\ \E o \in new_owned(heap, v) :
         LET r == Ghost(o.v, Content(heap, v), "none", 0)
         IN  /\ heap' = o.h
             /\ vals' = Put(r) (-) SetToBag({v})
             /\ last' = Rec("new_owned", v, r, heap, o.h)
    /\ UNCHANGED <<probe, thr>>

\* MStr::new_cow(c)
NewCow(c) ==
    /\ c.kind \in {"cow_owned", "cow_borrowed"}
    /\ Movable(c)
    /\ \E o \in new_cow(heap, c) :
         LET r == Ghost(o.v, Content(heap, c), "none", 0)
         IN  /\ heap' = o.h
             /\ vals' = Put(r) (-) SetToBag({c})
             /\ last' = Rec("new_cow", c, r, heap, o.h)
    /\ UNCHANGED <<probe, thr>>

\* m.into_cow()
IntoCow(m) ==
    /\ IsMStr(m)
    /\ Movable(m)
    /\ LET o == into_cow(heap, m)
           r == Ghost(o.v, Content(heap, m),
                      IF is_owned(m) THEN "owned" ELSE "borrowed", as_ptr(m))
       IN  /\ heap' = o.h
           /\ vals' = Put(r) (-) SetToBag({m})
           /\ last' = Rec("into_cow", m, r, heap, o.h)
    /\ UNCHANGED <<probe, thr>>

\* m.into_string()
IntoString(m) ==
    /\ IsMStr(m)
    /\ Movable(m)
    /\ \E o \in into_string(heap, m) :
         LET r == Ghost(o.v, Content(heap, m), "none", 0)
         IN  /\ heap' = o.h
             /\ vals' = Put(r) (-) SetToBag({m})
             /\ last' = Rec("into_string", m, r, heap, o.h)
    /\ UNCHANGED <<probe, thr>>

\* m.into_boxed()
IntoBoxed(m) ==
    /\ IsMStr(m)
    /\ Movable(m)
    /\ \E o \in into_boxed(heap, m) :
         LET r == Ghost(o.v, Content(heap, m), "none", 0)
         IN  /\ heap' = o.h
             /\ vals' = Put(r) (-) SetToBag({m})
             /\ last' = Rec("into_boxed", m, r, heap, o.h)
    /\ UNCHANGED <<probe, thr>>

\* m.clone()
Clone(m) ==
    /\ IsMStr(m)
    /\ Room
    /\ \E o \in clone(heap, m) :
         LET r == Ghost(o.v, Content(heap, m), "none", 0)
         IN  /\ heap' = o.h
             /\ vals' = Put(r)
             /\ last' = Rec("clone", m, r, heap, o.h)
    /\ UNCHANGED <<probe, thr>>

\* m goes out of scope
Drop(m) ==
    /\ IsMStr(m)
    /\ Movable(m)
    /\ Unshared(m)
    /\ heap' = drop(heap, m)
    /\ vals' = Take(m)
    /\ last' = Rec("drop", Bare(m), NoVal, heap, drop(heap, m))
    /\ UNCHANGED <<probe, thr>>

\* MStr::default()
Default ==
    /\ Room
    /\ LET r == default
       IN  /\ vals' = Put(r)
           /\ last' = Rec("default", NoVal, r, heap, heap)
    /\ UNCHANGED <<heap, probe, thr>>

\* Deserialize for MStr: the decoder calls visit_str with a view of its
\* buffer, or visit_string with a String it owns
VisitStr(s) ==
    /\ Room
    /\ \E o \in visit_str(heap, s) :
         LET r == Ghost(o.v, s.text, "none", 0)
         IN  /\ heap' = o.h
             /\ vals' = Put(r)
             /\ last' = Rec("visit_str", s, r, heap, o.h)
    /\ UNCHANGED <<probe, thr>>

VisitString(v) ==
    /\ v.kind = "string"
    /\ Movable(v)
    /\ \E o \in visit_string(heap, v) :
         LET r == Ghost(o.v, Content(heap, v), "none", 0)
         IN  /\ heap' = o.h
             /\ vals' = Put(r) (-) SetToBag({v})
             /\ last' = Rec("visit_string", v, r, heap, o.h)
    /\ UNCHANGED <<probe, thr>>

\* m == other, m.partial_cmp(&other), both also the other way round, and the
\* hashes of both, for two MStr
Compare(m, other) ==
    /\ IsMStr(m) /\ IsMStr(other)
    /\ last' = [Rec("compare", m, NoVal, heap, heap) EXCEPT
                  !.arg2 = other,
                  !.eq = eq(heap, m, other),
                  !.eq2 = eq(heap, other, m),
                  !.ord = partial_cmp(heap, m, other),
                  !.ord2 = partial_cmp(heap, other, m),
                  !.hash = hash(heap, m, <<>>),
                  !.hash2 = hash(heap, other, <<>>)]
    /\ UNCHANGED <<heap, vals, probe, thr>>

\* m == other and other == m for a plain str, String or Box<str>, and
\* m.partial_cmp(other) and other.partial_cmp(m) for a str
CompareStr(m, other) ==
    /\ IsMStr(m)
    /\ other.kind \in {"str", "string", "box"}
    /\ last' = [Rec("compare_str", m, NoVal, heap, heap) EXCEPT
                  !.arg2 = other,
                  !.eq = eq_str(heap, m, other),
                  !.eq2 = str_eq_mstr(heap, other, m),
                  !.ord = IF other.kind = "str"
                          THEN partial_cmp_str(heap, m, other) ELSE "none",
                  !.ord2 = IF other.kind = "str"
                           THEN str_partial_cmp_mstr(heap, other, m) ELSE "none",
                  !.hash = hash(heap, m, <<>>),
                  !.hash2 = str_hash(str_of(heap, other), <<>>)]
    /\ UNCHANGED <<heap, vals, probe, thr>>

Next ==
    \/ \E k \in 1 .. Len(Literals), spare \in {0, MaxSpare} : MakeString(k, spare)
    \/ \E k \in 1 .. Len(Literals) : MakeBox(k)
    \/ \E v \in Held : DropStd(v)
    \/ \E v \in Held : MakeCow(v)
    \/ \E s \in StrSources : NewBorrowed(s)
    \/ \E s \in LiteralStrs : NewOwnedStr(s)
    \/ \E v \in Held : NewOwned(v)
    \/ \E c \in Held : NewCow(c)
    \/ \E m \in Held : IntoCow(m)
    \/ \E m \in Held : IntoString(m)
    \/ \E m \in Held : IntoBoxed(m)
    \/ \E m \in Held : Clone(m)
    \/ \E m \in Held : Drop(m)
    \/ Default

Spec == Init /\ [][Next]_vars

\* The decoder as client: it builds Strings, hands its buffer or a String
\* to the visitor, and the results are dropped.
NextDe ==
    \/ \E k \in 1 .. Len(Literals), spare \in {0, MaxSpare} : MakeString(k, spare)
    \/ \E v \in Held : DropStd(v)
    \/ \E s \in StrSources : VisitStr(s)
    \/ \E v \in Held : VisitString(v)
    \/ \E m \in Held : Clone(m)
    \/ \E m \in Held : IntoString(m)
    \/ \E m \in Held : Drop(m)

SpecDe == Init /\ [][NextDe]_vars

\* The client that builds values of either tag and compares them.
NextCmp ==
    \/ \E k \in 1 .. Len(Literals), spare \in {0, MaxSpare} : MakeString(k, spare)
    \/ \E k \in 1 .. Len(Literals) : MakeBox(k)
    \/ \E v \in Held : DropStd(v)
    \/ \E s \in StrSources : NewBorrowed(s)
    \/ \E s \in LiteralStrs : NewOwnedStr(s)
    \/ \E v \in Held : NewOwned(v)
    \/ \E m \in Held : Drop(m)
    \/ \E m \in Held, other \in Held : Compare(m, other)
    \/ \E m \in Held, other \in Held \cup StrSources : CompareStr(m, other)

SpecCmp == Init /\ [][NextCmp]_vars

\* The packing of the length/tag word on its own: _new applied to every
\* length of the word's width and either tag.
InitPack ==
    /\ heap = EmptyHeap
    /\ vals = EmptyBag
    /\ last = Rec("init", NoVal, NoVal, EmptyHeap, EmptyHeap)
    /\ \E n \in USIZE, t \in BOOLEAN, p \in {Dangling} \cup StaticAddrs \cup HeapAddrs :
         probe = [Idle EXCEPT !.n = n, !.tag = t, !.ptr = p]
    /\ thr = NoThreads

Pack ==
    /\ ~probe.done
    /\ probe' = [probe EXCEPT !.m = _new(probe.ptr, probe.n, probe.tag),
                              !.done = TRUE]
    /\ UNCHANGED <<heap, vals, last, thr>>

NextPack == Pack

SpecPack == InitPack /\ [][NextPack]_vars

\* The client that builds owned MStr values in every way there is, from a
\* Box<str>, a String with or without spare capacity, a &str, a
\* Cow::Owned, by clone and through the serde visitor, and that drops them
\* or turns them back into a Cow.
NextOwn ==
    \/ \E k \in 1 .. Len(Literals), spare \in {0, MaxSpare} : MakeString(k, spare)
    \/ \E k \in 1 .. Len(Literals) : MakeBox(k)
    \/ \E v \in Held : DropStd(v)
    \/ \E v \in Held : MakeCow(v)
    \/ \E s \in LiteralStrs : NewOwnedStr(s)
    \/ \E v \in Held : NewOwned(v)
    \/ \E c \in Held : NewCow(c)
    \/ \E s \in LiteralStrs : VisitStr(s)
    \/ \E v \in Held : VisitString(v)
    \/ \E m \in Held : Clone(m)
    \/ \E m \in Held : IntoCow(m)
    \/ \E m \in Held : Drop(m)

SpecOwn == Init /\ [][NextOwn]_vars

\* The methods that take &self
ReadOps == {"as_str", "as_bytes", "as_ptr", "as_str_ptr", "len", "is_empty",
            "is_owned", "is_borrowed", "clone", "eq", "cmp", "hash",
            "fmt", "fmt_pointer"}

\* what a method taking &self returns, clone apart
ReadResult(h, op, m, other) ==
    CASE op = "as_str" -> as_str(h, m)
      [] op = "as_bytes" -> as_bytes(h, m)
      [] op = "as_ptr" -> as_ptr(m)
      [] op = "as_str_ptr" -> as_str_ptr(m)
      [] op = "len" -> len(m)
      [] op = "is_empty" -> is_empty(m)
      [] op = "is_owned" -> is_owned(m)
      [] op = "is_borrowed" -> is_borrowed(m)
      [] op = "eq" -> eq(h, m, other)
      [] op = "cmp" -> cmp(h, m, other)
      [] op = "hash" -> hash(h, m, <<>>)
      [] op = "fmt" -> as_str(h, m)
      [] op = "fmt_pointer" -> as_str_ptr(m)

\* thread t is handed a shared reference to the held MStr m
Share(t, m) ==
    /\ thr[t].pc = "idle"
    /\ IsMStr(m)
    /\ thr' = [thr EXCEPT ![t] = [NoThread EXCEPT !.pc = "ref", !.self = m,
                                    !.bytes = as_str(heap, m)]]
    /\ UNCHANGED <<heap, vals, last, probe>>

\* the method thread t has called loads self.ptr and self.len
Load(t) ==
    /\ thr[t].pc = "ref"
    /\ thr[t].self \in Held
    /\ thr' = [thr EXCEPT ![t].pc = "loaded", ![t].ptr = thr[t].self.ptr,
                          ![t].len = thr[t].self.len]
    /\ UNCHANGED <<heap, vals, last, probe>>

\* the instance as thread t loaded it
Loaded(t) == [thr[t].self EXCEPT !.ptr = thr[t].ptr, !.len = thr[t].len]

\* the methods that take a second MStr by reference
CmpOps == {"eq", "cmp"}

\* the method computes its result from the loaded words and the bytes they
\* point to, and returns, which ends the reference; a comparison takes
\* any held MStr as other, the other methods ignore it
Return(t, op, other) ==
    /\ thr[t].pc = "loaded"
    /\ op \in ReadOps \ {"clone"}
    /\ IsMStr(other)
    /\ op \notin CmpOps => other = thr[t].self
    /\ thr' = [thr EXCEPT ![t] = NoThread]
    /\ vals' = Put(shared_ref(thr[t].self)) (-) SetToBag({thr[t].self})
    /\ last' = [Rec(op, thr[t].self, NoVal, heap, heap) EXCEPT
                  !.res = ReadResult(heap, op, Loaded(t), other)]
    /\ UNCHANGED <<heap, probe>>

\* clone returns: the new MStr is the client's
ReturnClone(t) ==
    /\ thr[t].pc = "loaded"
    /\ Room
    /\ \E o \in clone(heap, Loaded(t)) :
         LET r == Ghost(o.v, Content(heap, Loaded(t)), "none", 0)
         IN  /\ heap' = o.h
             /\ vals' = (Put(shared_ref(thr[t].self))
                            (-) SetToBag({thr[t].self})) (+) SetToBag({r})
             /\ thr' = [thr EXCEPT ![t] = NoThread]
             /\ last' = Rec("clone", thr[t].self, r, heap, o.h)
    /\ UNCHANGED probe

\* Threads that share the client's MStr values and only read them, while
\* the client builds values and drops the ones no thread refers to.
NextRead ==
    \/ \E s \in LiteralStrs : NewBorrowed(s)
    \/ \E s \in LiteralStrs : NewOwnedStr(s)
    \/ \E m \in Held : Drop(m)
    \/ \E t \in Threads, m \in Held : Share(t, m)
    \/ \E t \in Threads : Load(t)
    \/ \E t \in Threads, op \in ReadOps, other \in Held : Return(t, op, other)
    \/ \E t \in Threads : ReturnClone(t)

SpecRead == Init /\ [][NextRead]_vars

(* ----------------------------- properties ----------------------------- *)

\* the held values responsible for the heap block at address a
OwnersOf(a) == {v \in Held : OwnsHeap(v) /\ OwnedSize(v) > 0 /\ v.ptr = a}

\* C1: every heap allocation backing an owned value has exactly one owner at
\* a time and is never freed twice: each live block is owned by exactly one
\* held value, each owning value's block is live, no free of a dead block
\* ever happens; into_cow on an owned MStr frees nothing and hands the block
\* to the Cow::Owned it returns, and dropping an owned MStr frees exactly its
\* own block.
C1_SingleOwner ==
    /\ heap.fault = "none"
    /\ \A a \in HeapAddrs :
         heap.blk[a].live =>
            \E v \in OwnersOf(a) :
               /\ CopiesIn(v, vals) = 1
               /\ OwnersOf(a) = {v}
    /\ \A v \in Held :
         OwnsHeap(v) /\ OwnedSize(v) > 0 =>
            v.ptr \in HeapAddrs /\ heap.blk[v.ptr].live
    /\ last.op = "into_cow" /\ is_owned(last.arg) =>
         /\ last.freed = {} /\ last.allocd = {}
         /\ last.res.kind = "cow_owned"
         /\ last.res.ptr = as_ptr(last.arg)
         /\ len(last.arg) > 0 => OwnersOf(as_ptr(last.arg)) = {last.res}
    /\ last.op = "drop" /\ is_owned(last.arg) /\ len(last.arg) > 0 =>
         last.freed = {as_ptr(last.arg)}

\* an owned MStr was dropped while a Cow::Owned made by into_cow is held
C1_Witness ==
    /\ last.op = "drop" /\ is_owned(last.arg) /\ len(last.arg) > 0
    /\ \E c \in Held : c.kind = "cow_owned" /\ c.otag = "owned" /\ c.len > 0

\* C2: for a length n below 2^(BITS-1) and a tag o, the word packed by _new
\* decodes losslessly: is_owned() = o, is_borrowed() = ~o, len() = n.
C2_PackingLossless ==
    probe.done /\ probe.n < TAG =>
        /\ is_owned(probe.m) = probe.tag
        /\ is_borrowed(probe.m) = ~probe.tag
        /\ is_owned(probe.m) # is_borrowed(probe.m)
        /\ len(probe.m) = probe.n
        /\ as_ptr(probe.m) = probe.ptr

\* the largest length was packed with the tag set
C2_Witness == probe.done /\ probe.tag /\ probe.n = TAG - 1

\* C3: new_borrowed(t) is borrowed, has the length, the bytes and the start
\* address of t, and allocates and frees nothing.
C3_NewBorrowed ==
    last.op = "new_borrowed" =>
        /\ is_borrowed(last.res) /\ ~is_owned(last.res)
        /\ len(last.res) = last.arg.len
        /\ len(last.res) = Len(last.argtext)
        /\ as_str(heap, last.res) = last.argtext
        /\ as_ptr(last.res) = last.arg.ptr
        /\ last.allocd = {} /\ last.freed = {}

\* a non-empty view of a heap-owned value was borrowed
C3_Witness ==
    /\ last.op = "new_borrowed"
    /\ last.arg.len > 0
    /\ last.arg.ptr \in HeapAddrs

\* the source is a Box<str>, or a String whose capacity is its length
ExactCapacity(s) ==
    s.kind = "box" \/ (s.kind = "string" /\ s.cap = s.len)

\* C4: new_owned of an exact-capacity owned buffer is owned, has the source's
\* content and the source's address, and neither allocates nor frees.
C4_NewOwnedReuses ==
    last.op = "new_owned" /\ ExactCapacity(last.arg) =>
        /\ is_owned(last.res) /\ ~is_borrowed(last.res)
        /\ as_str(heap, last.res) = last.argtext
        /\ as_ptr(last.res) = last.arg.ptr
        /\ last.allocd = {} /\ last.freed = {}

\* a non-empty String with no excess capacity was moved into new_owned
C4_Witness ==
    /\ last.op = "new_owned"
    /\ last.arg.kind = "string"
    /\ last.arg.cap = last.arg.len
    /\ last.arg.len > 0

\* C5 as stated: clone keeps the tag and the content; a borrowed clone has
\* the same address and length and allocates nothing; an owned clone is
\* backed by a fresh allocation at a different address.
C5_CloneAsStated ==
    last.op = "clone" =>
        /\ is_owned(last.res) = is_owned(last.arg)
        /\ is_borrowed(last.res) = is_borrowed(last.arg)
        /\ as_str(heap, last.res) = last.argtext
        /\ as_str(heap, last.arg) = last.argtext
        /\ is_borrowed(last.arg) =>
             /\ as_ptr(last.res) = as_ptr(last.arg)
             /\ len(last.res) = len(last.arg)
             /\ last.allocd = {} /\ last.freed = {}
        /\ is_owned(last.arg) =>
             /\ as_ptr(last.res) # as_ptr(last.arg)
             /\ last.allocd = {as_ptr(last.res)}
             /\ last.freed = {}

\* C5 amended: as stated, except that the owned clone has a fresh allocation
\* at a different address only when the text is not empty; the clone of an
\* empty owned MStr allocates nothing and has the same dangling address.  In
\* both cases the two owned instances share no allocation.
C5_Clone ==
    last.op = "clone" =>
        /\ is_owned(last.res) = is_owned(last.arg)
        /\ is_borrowed(last.res) = is_borrowed(last.arg)
        /\ as_str(heap, last.res) = last.argtext
        /\ as_str(heap, last.arg) = last.argtext
        /\ is_borrowed(last.arg) =>
             /\ as_ptr(last.res) = as_ptr(last.arg)
             /\ len(last.res) = len(last.arg)
             /\ last.allocd = {} /\ last.freed = {}
        /\ is_owned(last.arg) /\ len(last.arg) > 0 =>
             /\ as_ptr(last.res) # as_ptr(last.arg)
             /\ last.allocd = {as_ptr(last.res)}
             /\ last.freed = {}
             /\ OwnersOf(as_ptr(last.res)) = {last.res}
             /\ OwnersOf(as_ptr(last.arg)) = {last.arg}
        /\ is_owned(last.arg) /\ len(last.arg) = 0 =>
             /\ as_ptr(last.res) = Dangling
             /\ as_ptr(last.arg) = Dangling
             /\ last.allocd = {} /\ last.freed = {}

\* a non-empty owned MStr was cloned
C5_Witness ==
    last.op = "clone" /\ is_owned(last.arg) /\ len(last.arg) > 0

C7_CowRoundTrip ==
    /\ last.op = "into_cow" =>
         /\ last.res.kind =
              (IF is_owned(last.arg) THEN "cow_owned" ELSE "cow_borrowed")
         /\ last.res.ptr = as_ptr(last.arg)
         /\ last.res.len = len(last.arg)
         /\ Content(heap, last.res) = last.argtext
         /\ last.allocd = {} /\ last.freed = {}
    /\ last.op = "new_cow" /\ last.arg.otag # "none" =>
         /\ is_owned(last.res) = (last.arg.otag = "owned")
         /\ is_borrowed(last.res) = (last.arg.otag = "borrowed")
         /\ as_ptr(last.res) = last.arg.optr
         /\ as_str(heap, last.res) = last.arg.text
         /\ last.allocd = {} /\ last.freed = {}

\* the Cow::Owned of a non-empty owned MStr went back through new_cow
C7_Witness ==
    last.op = "new_cow" /\ last.arg.otag = "owned" /\ last.arg.len > 0

\* lexicographic byte order, stated directly
LexLess(a, b) ==
    \E k \in 0 .. Min(Len(a), Len(b)) :
        /\ \A i \in 1 .. k : a[i] = b[i]
        /\ \/ k = Len(a) /\ k < Len(b)
           \/ k < Len(a) /\ k < Len(b) /\ a[k + 1] < b[k + 1]

Lex(a, b) ==
    IF a = b THEN "Equal" ELSE IF LexLess(a, b) THEN "Less" ELSE "Greater"

\* C8: for texts a and b and any tags and addresses, MStr(a) == MStr(b) iff
\* a = b, the ordering is the lexicographic byte order of a and b and is
\* Equal exactly when they are equal, equal texts hash alike, and a
\* comparison against a plain str, String or Box<str> gives the same.
C8_ContentOnly ==
    last.op \in {"compare", "compare_str"} =>
        /\ last.eq = (last.arg.text = last.arg2.text)
        /\ last.eq2 = last.eq
        /\ last.ord # "none" =>
             /\ last.ord = Lex(last.arg.text, last.arg2.text)
             /\ last.ord2 = Lex(last.arg2.text, last.arg.text)
             /\ (last.ord = "Equal") = last.eq
        /\ last.op = "compare" \/ last.arg2.kind = "str" => last.ord # "none"
        /\ last.arg.text = last.arg2.text => last.hash = last.hash2
        /\ last.hash = last.arg.text \o <<255>>

\* an owned and a borrowed MStr of equal non-empty text at different
\* addresses were compared
C8_Witness ==
    /\ last.op = "compare"
    /\ is_owned(last.arg) /\ is_borrowed(last.arg2)
    /\ last.arg.text = last.arg2.text
    /\ len(last.arg) > 0
    /\ as_ptr(last.arg) # as_ptr(last.arg2)
    /\ last.eq

\* C9: both visitor entry points give an owned MStr whose content is the
\* decoded text, visit_str from a fresh copy of the decoder's buffer.
C9_DeserializeOwned ==
    last.op \in {"visit_str", "visit_string"} =>
        /\ is_owned(last.res) /\ ~is_borrowed(last.res)
        /\ as_str(heap, last.res) = last.argtext
        /\ last.op = "visit_str" /\ last.arg.len > 0 =>
             /\ as_ptr(last.res) # last.arg.ptr
             /\ last.allocd = {as_ptr(last.res)}

\* visit_str was called with a non-empty static buffer
C9_Witness ==
    /\ last.op = "visit_str"
    /\ last.arg.len > 0
    /\ last.arg.ptr \in StaticAddrs

\* C10: default() is borrowed and empty, equals the empty string, has the
\* non-null dangling address, allocates nothing, and its drop frees nothing.
C10_Default ==
    last.op = "default" =>
        /\ is_borrowed(last.res) /\ ~is_owned(last.res)
        /\ len(last.res) = 0
        /\ is_empty(last.res)
        /\ eq_str(heap, last.res, LiteralStr(1))
        /\ as_str(heap, last.res) = <<>>
        /\ as_ptr(last.res) = Dangling /\ as_ptr(last.res) # 0
        /\ as_ptr(last.res) \notin HeapAddrs
        /\ last.allocd = {} /\ last.freed = {}
        /\ drop(heap, last.res) = heap

\* default() was called while a heap block was live
C10_Witness ==
    last.op = "default" /\ \E a \in HeapAddrs : heap.blk[a].live

C12_DropBorrowed ==
    /\ last.op = "drop" /\ is_borrowed(last.arg) =>
          /\ last.freed = {} /\ last.allocd = {}
          /\ heap.fault = "none"
          /\ Deref(heap, as_ptr(last.arg), len(last.arg)) = last.argtext
          /\ as_ptr(last.arg) \in HeapAddrs /\ len(last.arg) > 0 =>
                /\ heap.blk[as_ptr(last.arg)].live
                /\ Cardinality(OwnersOf(as_ptr(last.arg))) = 1
    /\ IsMStr(last.arg) /\ last.freed # {} => is_owned(last.arg)

\* a borrowed MStr whose text lies in a heap block owned by a value that
\* is still held has been dropped
C12_Witness ==
    /\ last.op = "drop" /\ is_borrowed(last.arg)
    /\ len(last.arg) > 0
    /\ as_ptr(last.arg) \in HeapAddrs
    /\ OwnersOf(as_ptr(last.arg)) # {}

\* the owned MStr values held
OwnedMStrs == {m \in Held : IsMStr(m) /\ is_owned(m)}

\* the ways an owned MStr is built
Builders == {"new_owned", "new_cow", "clone", "visit_str", "visit_string"}

====
